---- MODULE Spec2Model ----
(***************************************************************************)
(* Snippets plugin: a directory of text files indexed by a background      *)
(* scan (Plugin::indexer), kept in sync by a directory watcher, queried    *)
(* by rankItems and changed by addSnippet / removeSnippet.                 *)
(***************************************************************************)
EXTENDS Integers, Sequences, FiniteSets, TLC

VARIABLES
    dir,        \* the snippet directory: file name -> file state
    trash,      \* names of the files moved to the trash
    notify,     \* QFileSystemWatcher: a directoryChanged signal is queued
    jobs,       \* the scan jobs in execution (worker side of Plugin::indexer)
    pending,    \* restarts recorded by the executor; abort flag == pending > 0
    index,      \* the published index items (setIndexItems)
    pub,        \* provenance of the published index: the job it came from
    completed,  \* results of the jobs that ended with no restart pending
    everReq,    \* updateIndexItems() was called at least once
    changes,    \* number of directory changes so far (bounded by guards)
    requests,   \* number of explicit rescan requests so far
    query,      \* the query being answered and the snapshot it reads
    lastRank,   \* the last vector rankItems returned, with its query
    dialogs,    \* the FilenameDialogs of addSnippet, each with its outcome
    rm          \* the removeSnippet call in progress and its outcome

vars == << dir, trash, notify, jobs, pending, index, pub, completed, everReq,
           changes, requests, query, lastRank, dialogs, rm >>

scanVars == << jobs, pending, index, pub, completed, everReq >>
queryVars == << query, lastRank >>

----------------------------------------------------------------------------
(* Bounds of the model *)

MaxChanges == 2
MaxRequests == 2

MaxExtra == 2        \* preview texts are up to preview_max_size + MaxExtra long

MaxOwnDialogs == 1   \* dialogs open at a time where rescans are followed to the end

(* Program constants *)

preview_max_size == 100
prefix_add == << "+" >>
SyntheticScore == 100       \* the score 1. of the "Create new snippet" item
ScoreScale == SyntheticScore \* scores are in (0, 1], kept as hundredths

----------------------------------------------------------------------------
(* Texts are sequences of characters *)

Whitespace == { " ", "\n", "\t" }

Contents == { << >>, << "h", "\n", " ", "i" >> }

TxtFile(name) == [base |-> name, ext |-> "txt"]

\* every file name of the model, in the order QDir lists them (by name)
AllFiles == << TxtFile(<< "+" >>), TxtFile(<< "a" >>) >>

FileNames == { AllFiles[k] : k \in 1..Len(AllFiles) }

NoFile == [present |-> FALSE, content |-> << >>, readable |-> FALSE]

FileStates == { NoFile } \cup
    [present : {TRUE}, content : Contents, readable : BOOLEAN]

exists(f) == dir[f].present

Present(d) == { f \in FileNames : d[f].present }

\* every entry a directory of the model may hold, in the order of the listing
Listing ==
    << TxtFile(<< "+" >>),
       [base |-> << "a" >>, ext |-> "md"],
       [base |-> << "a" >>, ext |-> "TXT"],
       TxtFile(<< "a" >>),
       TxtFile(<< "d" >>) >>

\* the entries that are subdirectories when present
SubDirs == { TxtFile(<< "d" >>) }

toLower(e) == IF e = "TXT" THEN "txt" ELSE e

\* the name filter "*.txt"; QDir matches it without regard to case
nameFilterMatches(f) == toLower(f.ext) = "txt"

RECURSIVE SelectFiles(_, _)
SelectFiles(k, d) ==
    IF k > Len(Listing) THEN << >>
    ELSE IF /\ Listing[k] \in DOMAIN d
            /\ d[Listing[k]].present
            /\ Listing[k] \notin SubDirs
            /\ nameFilterMatches(Listing[k])
         THEN << Listing[k] >> \o SelectFiles(k + 1, d)
         ELSE SelectFiles(k + 1, d)

\* QDir(configLocation()).entryInfoList({"*.txt"}, QDir::Files)
entryInfoList(d) == SelectFiles(1, d)

completeBaseName(f) == f.base

----------------------------------------------------------------------------
(* QString::simplified and the preview of SnippetItem *)

NonWs(s) == { i \in 1..Len(s) : s[i] \notin Whitespace }

DropLeadingWs(s) ==
    IF NonWs(s) = { } THEN << >>
    ELSE SubSeq(s, CHOOSE i \in NonWs(s) : \A j \in NonWs(s) : i <= j, Len(s))

\* leading and trailing whitespace removed, every inner run of whitespace
\* replaced by one space ("" marks a character that is dropped)
simplified(s) ==
    LET t == DropLeadingWs(s)
        last == CHOOSE i \in NonWs(t) : \A j \in NonWs(t) : j <= i
        m == [i \in 1..Len(t) |->
                IF t[i] \notin Whitespace THEN t[i]
                ELSE IF i < last /\ t[i - 1] \notin Whitespace THEN " "
                ELSE ""]
    IN  IF t = << >> THEN << >>
        ELSE SelectSeq(m, LAMBDA c : c /= "")

left(s, n) == IF Len(s) <= n THEN s ELSE SubSeq(s, 1, n)

makePreview_cutAtMax(text) ==
    LET p == simplified(text)
    IN  IF Len(p) >= preview_max_size
        THEN left(p, preview_max_size) \o << " ", "..." >>
        ELSE p

\* preview_: simplified, cut to preview_max_size and followed by u" ..."
\* (a space and the ellipsis character, written "..." here)
makePreview(text) ==
    LET p == simplified(text)
    IN  IF Len(p) > preview_max_size
        THEN left(p, preview_max_size) \o << " ", "..." >>
        ELSE p

\* SnippetItem::SnippetItem: the item exists whether or not the read succeeds
SnippetItem(f, d) ==
    [id |-> completeBaseName(f),
     preview |-> IF d[f].present /\ d[f].readable
                 THEN makePreview(d[f].content)
                 ELSE << >>]

----------------------------------------------------------------------------
(* The scan job: indexer.parallel *)

NewJob_keepsResult ==
    [stage |-> "enum", files |-> << >>, i |-> 1, r |-> index,
     aborted |-> FALSE, cancels |-> 0, late |-> 0]

\* aborted: the job left through "if (abort) return r";
\* cancels: how often the abort flag was set while the job was in execution;
\* late: how many files the job loaded with the abort flag set
NewJob == [stage |-> "enum", files |-> << >>, i |-> 1, r |-> << >>,
           aborted |-> FALSE, cancels |-> 0, late |-> 0]

\* again: the publication replaced an earlier publication
NoPub == [files |-> << >>, aborted |-> FALSE, cancelled |-> FALSE,
          initial |-> TRUE, again |-> FALSE]

abort == pending > 0

\* QDialog::accept emits finished() before it returns: while a dialog is
\* accepted and its handler has not run, no other handler of the GUI thread runs
InAccept ==
    \E d \in 1..Len(dialogs) : dialogs[d].stage \in { "accepted", "writing" }

\* the dialogs after file f was removed: a handler that holds f open keeps
\* writing to the removed file
Unlink(f) ==
    [d \in 1..Len(dialogs) |->
        IF dialogs[d].stage = "writing" /\ TxtFile(dialogs[d].name) = f
        THEN [dialogs[d] EXCEPT !.unlinked = TRUE]
        ELSE dialogs[d]]

isRunning == jobs /= << >>

\* variants of the coordinator used to test the properties below
updateIndexItems_spawn ==
    /\ everReq' = TRUE
    /\ jobs' = Append(jobs, NewJob)
    /\ UNCHANGED << pending, index, pub, completed >>

updateIndexItems_queue ==
    /\ everReq' = TRUE
    /\ IF isRunning
       THEN /\ pending' = pending + 1
            /\ jobs' = [j \in 1..Len(jobs) |->
                          [jobs[j] EXCEPT !.cancels = @ + 1]]
       ELSE /\ jobs' = << NewJob >>
            /\ pending' = pending
    /\ UNCHANGED << index, pub, completed >>

updateIndexItems_drop ==
    /\ everReq' = TRUE
    /\ IF isRunning
       THEN UNCHANGED << jobs, pending >>
       ELSE /\ jobs' = << NewJob >>
            /\ pending' = pending
    /\ UNCHANGED << index, pub, completed >>

\* variant: the caller waits until the running job has ended
updateIndexItems_blocking ==
    /\ ~isRunning
    /\ everReq' = TRUE
    /\ jobs' = << NewJob >>
    /\ UNCHANGED << pending, index, pub, completed >>

\* indexer.run(): a request while a job runs records one restart
indexer_run ==
    /\ everReq' = TRUE
    /\ IF isRunning
       THEN /\ pending' = 1
            /\ jobs' = [j \in 1..Len(jobs) |->
                          [jobs[j] EXCEPT !.cancels = @ + 1]]
       ELSE /\ jobs' = << NewJob >>
            /\ pending' = pending
    /\ UNCHANGED << index, pub, completed >>

updateIndexItems == indexer_run

\* the for-init statement: the directory is listed once, when the job starts
ScanEnumerate(j) ==
    /\ jobs[j].stage = "enum"
    /\ jobs' = [jobs EXCEPT ![j].stage = "check",
                            ![j].files = entryInfoList(dir)]
    /\ UNCHANGED << pending, index, pub, completed, everReq >>

ScanCheck_inverted(j) ==
    /\ jobs[j].stage = "check"
    /\ jobs' = IF jobs[j].i > Len(jobs[j].files)
               THEN [jobs EXCEPT ![j].stage = "done"]
               ELSE IF ~abort
               THEN [jobs EXCEPT ![j].stage = "done", ![j].aborted = TRUE]
               ELSE [jobs EXCEPT ![j].stage = "load"]
    /\ UNCHANGED << pending, index, pub, completed, everReq >>

\* variant: the loop never looks at the abort flag
ScanCheck_ignoresAbort(j) ==
    /\ jobs[j].stage = "check"
    /\ jobs' = IF jobs[j].i > Len(jobs[j].files)
               THEN [jobs EXCEPT ![j].stage = "done"]
               ELSE [jobs EXCEPT ![j].stage = "load"]
    /\ UNCHANGED << pending, index, pub, completed, everReq >>

\* loop head and "if (abort) return r;"
ScanCheck(j) ==
    /\ jobs[j].stage = "check"
    /\ jobs' = IF jobs[j].i > Len(jobs[j].files)
               THEN [jobs EXCEPT ![j].stage = "done"]
               ELSE IF abort
               THEN [jobs EXCEPT ![j].stage = "done", ![j].aborted = TRUE]
               ELSE [jobs EXCEPT ![j].stage = "load"]
    /\ UNCHANGED << pending, index, pub, completed, everReq >>

\* variant: the file is passed over, nothing is added to the result
ScanLoad_skip(j) ==
    /\ jobs[j].stage = "load"
    /\ jobs' = [jobs EXCEPT ![j].i = @ + 1, ![j].stage = "check",
                            ![j].late = IF abort THEN @ + 1 ELSE @]
    /\ UNCHANGED << pending, index, pub, completed, everReq >>

\* r.emplace_back(make_shared<SnippetItem>(f, this), f.completeBaseName())
ScanLoad(j) ==
    /\ jobs[j].stage = "load"
    /\ jobs' = [jobs EXCEPT
                  ![j].r = Append(@, SnippetItem(jobs[j].files[jobs[j].i], dir)),
                  ![j].i = @ + 1,
                  ![j].late = IF abort THEN @ + 1 ELSE @,
                  ![j].stage = "check"]
    /\ UNCHANGED << pending, index, pub, completed, everReq >>

RemoveAt(s, j) == SubSeq(s, 1, j - 1) \o SubSeq(s, j + 1, Len(s))

indexer_finish_append(j) ==
    /\ index' = index \o jobs[j].r
    /\ pub' = [files |-> jobs[j].files, aborted |-> jobs[j].aborted,
               cancelled |-> jobs[j].cancels > 0, initial |-> FALSE,
               again |-> ~pub.initial]

\* indexer.finish: setIndexItems(indexer.takeResult())
indexer_finish(j) ==
    /\ index' = jobs[j].r
    /\ pub' = [files |-> jobs[j].files, aborted |-> jobs[j].aborted,
               cancelled |-> jobs[j].cancels > 0, initial |-> FALSE,
               again |-> ~pub.initial]

\* the executor's reaction to the end of job j
OnFinished(j) ==
    /\ ~InAccept
    /\ jobs[j].stage = "done"
    /\ IF pending > 0
       THEN /\ pending' = 0
            /\ jobs' = Append(RemoveAt(jobs, j), NewJob)
            /\ UNCHANGED << index, pub, completed >>
       ELSE /\ indexer_finish(j)
            /\ jobs' = RemoveAt(jobs, j)
            /\ completed' = completed \cup { jobs[j].r }
            /\ pending' = pending
    /\ UNCHANGED everReq

----------------------------------------------------------------------------
(* The directory watcher and the callers of updateIndexItems *)

\* an explicit request_rescan()
RequestRescan ==
    /\ requests < MaxRequests
    /\ requests' = requests + 1
    /\ updateIndexItems
    /\ UNCHANGED << dir, trash, notify, changes, queryVars, dialogs, rm >>

\* variant: the notification is consumed and no rescan is requested
DirectoryChanged_lost ==
    /\ ~InAccept
    /\ notify
    /\ notify' = FALSE
    /\ UNCHANGED << dir, trash, scanVars, changes, requests, queryVars,
                    dialogs, rm >>

\* connect(&fs_watcher, directoryChanged, [this]{ updateIndexItems(); })
DirectoryChanged ==
    /\ ~InAccept
    /\ notify
    /\ notify' = FALSE
    /\ updateIndexItems
    /\ UNCHANGED << dir, trash, changes, requests, queryVars, dialogs, rm >>

Scan ==
    /\ \E j \in 1..Len(jobs) :
          \/ ScanEnumerate(j)
          \/ ScanCheck(j)
          \/ ScanLoad(j)
          \/ OnFinished(j)
    /\ UNCHANGED << dir, trash, notify, changes, requests, queryVars,
                    dialogs, rm >>

----------------------------------------------------------------------------
(* Other actors changing the directory *)

ExtCreate ==
    /\ changes < MaxChanges
    /\ \E f \in FileNames, c \in Contents :
          /\ ~exists(f)
          /\ dir' = [dir EXCEPT ![f] =
                       [present |-> TRUE, content |-> c, readable |-> TRUE]]
    /\ notify' = TRUE
    /\ changes' = changes + 1
    /\ UNCHANGED << trash, scanVars, requests, queryVars, dialogs, rm >>

ExtDelete ==
    /\ changes < MaxChanges
    /\ \E f \in FileNames :
          /\ exists(f)
          /\ dir' = [dir EXCEPT ![f] = NoFile]
          /\ dialogs' = Unlink(f)
    /\ notify' = TRUE
    /\ changes' = changes + 1
    /\ UNCHANGED << trash, scanVars, requests, queryVars, rm >>

\* a change of permissions leaves the entry list as it is; the watcher of
\* the directory reports the change of attributes of a file in it
ExtChmod ==
    /\ changes < MaxChanges
    /\ \E f \in FileNames :
          /\ exists(f)
          /\ dir' = [dir EXCEPT ![f].readable = ~@]
    /\ notify' = TRUE
    /\ changes' = changes + 1
    /\ UNCHANGED << trash, scanVars, requests, queryVars, dialogs, rm >>

\* a file is rewritten in place: the entry list is as it was, and the
\* watcher, which watches the directory only, sends no notification
ExtEdit ==
    /\ changes < MaxChanges
    /\ \E f \in FileNames, c \in Contents :
          /\ exists(f)
          /\ c /= dir[f].content
          /\ dir' = [dir EXCEPT ![f].content = c]
    /\ changes' = changes + 1
    /\ UNCHANGED << trash, notify, scanVars, requests, queryVars, dialogs, rm >>

----------------------------------------------------------------------------
(* Queries: Plugin::rankItems over the published index *)

startsWith(s, pre) == Len(s) >= Len(pre) /\ SubSeq(s, 1, Len(pre)) = pre

mid(s, n) == SubSeq(s, n + 1, Len(s))

Queries == { << "+" >>, << "a" >>, << "+", "h", "\n", " ", "i" >> }

\* the matcher of the index: a prefix match scored by the matched share
matches(q, text) == startsWith(text, q)

score(q, text) == (Len(q) * ScoreScale) \div Len(text)

RECURSIVE IndexMatches(_, _)
\* one rank item for every item of the snapshot that the query matches
IndexMatches(q, snapshot) ==
    IF snapshot = << >> THEN << >>
    ELSE LET e == Head(snapshot)
             rest == IndexMatches(q, Tail(snapshot))
         IN  IF matches(q, e.id)
             THEN << [id |-> e.id, score |-> score(q, e.id),
                      kind |-> "snippet", text |-> << >>] >> \o rest
             ELSE rest

\* IndexQueryHandler::rankItems: the vectors it may return. They hold the
\* rank items of the matching snapshot items; their order is the host's and
\* is not fixed here
IndexRank(q, snapshot) ==
    LET m == IndexMatches(q, snapshot)
    IN  { [k \in 1..Len(m) |-> m[p[k]]] : p \in Permutations(1..Len(m)) }

CreateItem_lowScore(q) ==
    [id |-> prefix_add, score |-> SyntheticScore \div 2, kind |-> "create",
     text |-> mid(q, Len(prefix_add))]

CreateItem_wholeQuery(q) ==
    [id |-> prefix_add, score |-> SyntheticScore, kind |-> "create",
     text |-> q]

\* the "Create new snippet" item; its action holds the text after the prefix
CreateItem(q) ==
    [id |-> prefix_add, score |-> SyntheticScore, kind |-> "create",
     text |-> mid(q, Len(prefix_add))]

\* variant: the create item is put in front of the matches
rankItems_createFirst(q, results) ==
    IF startsWith(q, prefix_add)
    THEN << CreateItem(q) >> \o results
    ELSE results

\* Plugin::rankItems on the vector the host returned for the query: the
\* create item is put at its end, and nothing is sorted
rankItems(q, results) ==
    IF startsWith(q, prefix_add)
    THEN Append(results, CreateItem(q))
    ELSE results

NoQuery == [stage |-> "none", string |-> << >>, snap |-> << >>]

\* base: the vector IndexQueryHandler::rankItems returned in that call
NoRank == [string |-> << >>, base |-> << >>, items |-> << >>]

\* a query starts: it reads the snapshot that is published at this moment
QueryBegin ==
    /\ query.stage = "none"
    /\ \E q \in Queries :
          query' = [stage |-> "ranking", string |-> q, snap |-> index]
    /\ UNCHANGED << dir, trash, notify, scanVars, changes, requests,
                    lastRank, dialogs, rm >>

\* Plugin::rankItems returns
QueryRank ==
    /\ query.stage = "ranking"
    /\ \E results \in IndexRank(query.string, query.snap) :
          lastRank' = [string |-> query.string,
                       base |-> results,
                       items |-> rankItems(query.string, results)]
    /\ query' = NoQuery
    /\ UNCHANGED << dir, trash, notify, scanVars, changes, requests,
                    dialogs, rm >>

----------------------------------------------------------------------------
(* Plugin::addSnippet and the FilenameDialog *)

DialogNames == { << >>, << "+" >>, << "a" >> }

\* FilenameDialog::filePath: snippets_dir.filePath(name()) + ".txt"
filePath(name) == TxtFile(name)

\* FilenameDialog::updateUI: the state it leaves the Ok button in
updateUI(text) ==
    IF text = << >> THEN FALSE
    ELSE IF exists(filePath(text)) THEN FALSE
    ELSE TRUE

\* new FilenameDialog(...); dialog->open(): an empty line edit, updateUI({})
FilenameDialog(text, origin) ==
    [stage |-> "open", name |-> << >>, ok |-> updateUI(<< >>), text |-> text,
     origin |-> origin, result |-> "none", editor |-> FALSE,
     unlinked |-> FALSE]

\* Plugin::addSnippet(text): one more dialog, whatever dialogs are open
addSnippet(text, origin) ==
    dialogs' = Append(dialogs, FilenameDialog(text, origin))

\* the action of the "Create new snippet" item: [q]{ addSnippet(q); };
\* the user starts a create only within the budget of changes
ActivateCreate ==
    /\ ~InAccept
    /\ changes + Len(dialogs) < MaxChanges
    /\ \E k \in 1..Len(lastRank.items) :
          /\ lastRank.items[k].kind = "create"
          /\ addSnippet(lastRank.items[k].text, lastRank.string)
    /\ UNCHANGED << dir, trash, notify, scanVars, changes, requests,
                    queryVars, rm >>

\* pushButton_add: addSnippet({}, config_widget)
ConfigAdd ==
    /\ ~InAccept
    /\ changes + Len(dialogs) < MaxChanges
    /\ addSnippet(<< >>, << >>)
    /\ UNCHANGED << dir, trash, notify, scanVars, changes, requests,
                    queryVars, rm >>

\* QLineEdit::textChanged -> FilenameDialog::updateUI
DlgTextChanged ==
    /\ ~InAccept
    /\ \E d \in 1..Len(dialogs), n \in DialogNames :
          /\ dialogs[d].stage = "open"
          /\ n /= dialogs[d].name
          /\ dialogs' = [dialogs EXCEPT ![d].name = n, ![d].ok = updateUI(n)]
    /\ UNCHANGED << dir, trash, notify, scanVars, changes, requests,
                    queryVars, rm >>

\* variant: the dialog is accepted without the test at the moment of Ok
accept_unchecked ==
    /\ ~InAccept
    /\ \E d \in 1..Len(dialogs) :
          /\ dialogs[d].stage = "open"
          /\ dialogs[d].ok
          /\ dialogs' = [dialogs EXCEPT ![d].stage = "accepted"]
    /\ UNCHANGED << dir, trash, notify, scanVars, changes, requests,
                    queryVars, rm >>

\* the Ok button, when enabled -> FilenameDialog::accept
accept ==
    /\ ~InAccept
    /\ \E d \in 1..Len(dialogs) :
          /\ dialogs[d].stage = "open"
          /\ dialogs[d].ok
          /\ dialogs' =
                IF /\ dialogs[d].name /= << >>
                   /\ ~exists(filePath(dialogs[d].name))
                THEN [dialogs EXCEPT ![d].stage = "accepted"]
                ELSE dialogs
    /\ UNCHANGED << dir, trash, notify, scanVars, changes, requests,
                    queryVars, rm >>

\* the Cancel button: finished(Rejected), nothing is written
reject ==
    /\ ~InAccept
    /\ \E d \in 1..Len(dialogs) :
          /\ dialogs[d].stage = "open"
          /\ dialogs' = [dialogs EXCEPT ![d].stage = "closed",
                                        ![d].result = "rejected"]
    /\ UNCHANGED << dir, trash, notify, scanVars, changes, requests,
                    queryVars, rm >>

\* the finished handler on Accepted, up to QFile::open(WriteOnly): the file
\* is created, or truncated when it exists; nothing is written yet
finishedOpen ==
    /\ \E d \in 1..Len(dialogs), openOk \in BOOLEAN :
          LET f == filePath(dialogs[d].name)
          IN  /\ dialogs[d].stage = "accepted"
              /\ IF openOk
                 THEN /\ dir' = [dir EXCEPT ![f] =
                                   [present |-> TRUE,
                                    content |-> << >>,
                                    readable |-> IF exists(f)
                                                 THEN dir[f].readable
                                                 ELSE TRUE]]
                      /\ notify' = (notify \/ ~exists(f))
                      /\ changes' = changes + 1
                      /\ dialogs' = [dialogs EXCEPT ![d].stage = "writing"]
                 ELSE /\ dialogs' = [dialogs EXCEPT ![d].stage = "closed",
                                                   ![d].result = "critical"]
                      /\ UNCHANGED << dir, notify, changes >>
    /\ UNCHANGED << trash, scanVars, requests, queryVars, rm >>

\* the rest of the handler: open(file.fileName()) for an empty text, else
\* QTextStream(&file) << text; the text is in the file at file.close(),
\* written from offset 0 over what another actor put there since the open
finishedClose ==
    /\ \E d \in 1..Len(dialogs) :
          LET f    == filePath(dialogs[d].name)
              text == dialogs[d].text
          IN  /\ dialogs[d].stage = "writing"
              /\ dir' = IF text /= << >> /\ ~dialogs[d].unlinked
                        THEN [dir EXCEPT ![f].content =
                                text \o SubSeq(@, Len(text) + 1, Len(@))]
                        ELSE dir
              /\ dialogs' = [dialogs EXCEPT
                               ![d].stage = "closed",
                               ![d].result = "written",
                               ![d].editor = (dialogs[d].text = << >>)]
    /\ UNCHANGED << trash, notify, scanVars, changes, requests, queryVars,
                    rm >>

\* the handler connected to QDialog::finished
finished ==
    \/ finishedOpen
    \/ finishedClose

\* dialog->deleteLater()
DlgDelete ==
    /\ ~InAccept
    /\ \E d \in 1..Len(dialogs) :
          /\ dialogs[d].stage = "closed"
          /\ dialogs' = RemoveAt(dialogs, d)
    /\ UNCHANGED << dir, trash, notify, scanVars, changes, requests,
                    queryVars, rm >>

----------------------------------------------------------------------------
(* Plugin::removeSnippet *)

NoRm == [stage |-> "none", file |-> AllFiles[1], asked |-> FALSE,
         confirmed |-> FALSE, outcome |-> "none"]

\* the existence test; the question is asked only for an existing file
removeSnippet ==
    /\ ~InAccept
    /\ changes < MaxChanges
    /\ rm.stage = "none"
    /\ \E f \in FileNames :
          rm' = IF ~exists(f)
                THEN [stage |-> "returned", file |-> f, asked |-> FALSE,
                      confirmed |-> FALSE, outcome |-> "notfound"]
                ELSE [stage |-> "asking", file |-> f, asked |-> TRUE,
                      confirmed |-> FALSE, outcome |-> "none"]
    /\ UNCHANGED << dir, trash, notify, scanVars, changes, requests,
                    queryVars, dialogs >>

RmAnswer_hardDelete ==
    /\ ~InAccept
    /\ rm.stage = "asking"
    /\ \E yes \in BOOLEAN, trashOk \in BOOLEAN :
          IF ~yes
          THEN /\ rm' = [rm EXCEPT !.stage = "returned", !.outcome = "declined"]
               /\ UNCHANGED << dir, trash, notify, changes >>
          ELSE IF trashOk /\ exists(rm.file)
          THEN /\ dir' = [dir EXCEPT ![rm.file] = NoFile]
               /\ trash' = trash \cup { rm.file }
               /\ notify' = TRUE
               /\ changes' = changes + 1
               /\ rm' = [rm EXCEPT !.stage = "returned", !.confirmed = TRUE,
                                   !.outcome = "trashed"]
          ELSE /\ rm' = [rm EXCEPT !.stage = "returned", !.confirmed = TRUE,
                                   !.outcome = "warning"]
               /\ dir' = [dir EXCEPT ![rm.file] = NoFile]
               /\ notify' = (notify \/ exists(rm.file))
               /\ changes' = changes + 1
               /\ UNCHANGED trash
    /\ UNCHANGED << scanVars, requests, queryVars, dialogs >>

\* the answer to question(); on yes QFile::moveToTrash, which may fail
RmAnswer ==
    /\ ~InAccept
    /\ rm.stage = "asking"
    /\ \E yes \in BOOLEAN, trashOk \in BOOLEAN :
          IF ~yes
          THEN /\ rm' = [rm EXCEPT !.stage = "returned", !.outcome = "declined"]
               /\ UNCHANGED << dir, trash, notify, changes >>
          ELSE IF trashOk /\ exists(rm.file)
          THEN /\ dir' = [dir EXCEPT ![rm.file] = NoFile]
               /\ trash' = trash \cup { rm.file }
               /\ notify' = TRUE
               /\ changes' = changes + 1
               /\ rm' = [rm EXCEPT !.stage = "returned", !.confirmed = TRUE,
                                   !.outcome = "trashed"]
          ELSE /\ rm' = [rm EXCEPT !.stage = "returned", !.confirmed = TRUE,
                                   !.outcome = "warning"]
               /\ UNCHANGED << dir, trash, notify, changes >>
    /\ UNCHANGED << scanVars, requests, queryVars, dialogs >>

RmReturn ==
    /\ ~InAccept
    /\ rm.stage = "returned"
    /\ rm' = NoRm
    /\ UNCHANGED << dir, trash, notify, scanVars, changes, requests,
                    queryVars, dialogs >>

----------------------------------------------------------------------------

InitDirs ==
    { d \in [FileNames -> FileStates] :
        \A f \in FileNames : d[f].present =>
            /\ d[f].readable
            /\ d[f].content = << "h", "\n", " ", "i" >> }

Init ==
    /\ dir \in InitDirs
    /\ trash = { }
    /\ notify = FALSE
    /\ jobs = << >>
    /\ pending = 0
    /\ index = << >>
    /\ pub = NoPub
    /\ completed = { << >> }
    /\ everReq = FALSE
    /\ changes = 0
    /\ requests = 0
    /\ query = NoQuery
    /\ lastRank = NoRank
    /\ dialogs = << >>
    /\ rm = NoRm

Next ==
    \/ RequestRescan
    \/ DirectoryChanged
    \/ Scan
    \/ ExtCreate
    \/ ExtDelete
    \/ ExtChmod

Spec == Init /\ [][Next]_vars

\* the worker runs and queued signals are delivered
LiveSpec == Spec /\ WF_vars(Scan) /\ WF_vars(DirectoryChanged)

NextQuery ==
    \/ RequestRescan
    \/ DirectoryChanged
    \/ Scan
    \/ ExtDelete
    \/ QueryBegin
    \/ QueryRank

SpecQuery == Init /\ [][NextQuery]_vars

NextEdit ==
    \/ ExtCreate
    \/ ExtDelete
    \/ ConfigAdd
    \/ DlgTextChanged
    \/ accept
    \/ reject
    \/ finished
    \/ DlgDelete

SpecEdit == Init /\ [][NextEdit]_vars

\* removals from the settings view, next to files that other actors create
\* and delete
NextRemove ==
    \/ ExtCreate
    \/ ExtDelete
    \/ removeSnippet
    \/ RmAnswer
    \/ RmReturn

SpecRemove == Init /\ [][NextRemove]_vars

\* creates started from the create item of a query and from the settings
NextCreate ==
    \/ QueryBegin
    \/ QueryRank
    \/ ActivateCreate
    \/ ConfigAdd
    \/ DlgTextChanged
    \/ accept
    \/ finished
    \/ DlgDelete

SpecCreate == Init /\ [][NextCreate]_vars

----------------------------------------------------------------------------
(* Previews of long texts: the scan over directories that hold them *)

Rep(c, n) == [k \in 1..n |-> c]

\* texts around the limit, without and with whitespace to be simplified
PreviewTexts ==
    { Rep("x", n) :
        n \in (preview_max_size - 1)..(preview_max_size + MaxExtra) }
    \cup { << " ", "\n" >> \o Rep("x", n) \o << "\t", " " >> \o Rep("y", 1)
             \o << " " >> :
           n \in (preview_max_size - 3)..(preview_max_size + MaxExtra - 2) }

PreviewDirs ==
    { d \in [FileNames -> { NoFile } \cup
                [present : {TRUE}, content : PreviewTexts, readable : {TRUE}]] :
        d[AllFiles[2]].present }

InitPreview ==
    /\ dir \in PreviewDirs
    /\ trash = { }
    /\ notify = FALSE
    /\ jobs = << >>
    /\ pending = 0
    /\ index = << >>
    /\ pub = NoPub
    /\ completed = { << >> }
    /\ everReq = FALSE
    /\ changes = 0
    /\ requests = 0
    /\ query = NoQuery
    /\ lastRank = NoRank
    /\ dialogs = << >>
    /\ rm = NoRm

NextPreview ==
    \/ RequestRescan
    \/ Scan

SpecPreview == InitPreview /\ [][NextPreview]_vars

----------------------------------------------------------------------------
(* The index following the directory: files are created, deleted and
   rewritten by other actors and by addSnippet / removeSnippet *)

NextSync ==
    \/ RequestRescan
    \/ DirectoryChanged
    \/ Scan
    \/ ExtCreate
    \/ ExtDelete
    \/ ExtEdit

LiveSync == Init /\ [][NextSync]_vars /\ WF_vars(Scan) /\ WF_vars(DirectoryChanged)

\* every way the entry list changes, by addSnippet and removeSnippet and by
\* other actors, with no call of updateIndexItems but the watcher's; the
\* settings view opens up to MaxOwnDialogs dialogs at a time
NextOwn ==
    \/ DirectoryChanged
    \/ Scan
    \/ ExtCreate
    \/ ExtDelete
    \/ (Len(dialogs) < MaxOwnDialogs /\ ConfigAdd)
    \/ DlgTextChanged
    \/ accept
    \/ reject
    \/ finished
    \/ DlgDelete
    \/ removeSnippet
    \/ RmAnswer
    \/ RmReturn

\* the directory holds one snippet when the plugin starts
InitOwn ==
    /\ Init
    /\ Present(dir) = { TxtFile(<< "a" >>) }

\* The worker runs, and the handler inside QDialog::accept returns. The
\* queued signals (directoryChanged, the end of a job) wait while the GUI
\* thread is inside accept and are delivered when it is back in the event
\* loop, however often dialogs are accepted: strong fairness
LiveOwn ==
    /\ InitOwn /\ [][NextOwn]_vars
    /\ SF_vars(Scan) /\ SF_vars(DirectoryChanged) /\ WF_vars(finished)

----------------------------------------------------------------------------
(* Rescans of a directory that nobody changes; a notification may be left
   over from a change made before *)

InitIdem ==
    /\ dir \in [FileNames -> FileStates]
    /\ trash = { }
    /\ notify \in BOOLEAN
    /\ jobs = << >>
    /\ pending = 0
    /\ index = << >>
    /\ pub = NoPub
    /\ completed = { << >> }
    /\ everReq = FALSE
    /\ changes = 0
    /\ requests = 0
    /\ query = NoQuery
    /\ lastRank = NoRank
    /\ dialogs = << >>
    /\ rm = NoRm

NextIdem ==
    \/ RequestRescan
    \/ DirectoryChanged
    \/ Scan

SpecIdem == InitIdem /\ [][NextIdem]_vars

----------------------------------------------------------------------------
(* Properties *)

IndexIds == { index[k].id : k \in 1..Len(index) }

\* the step in which the finished handler of the accepted dialog d opens
\* the file or fails to
HandlerOpens(d) ==
    /\ Len(dialogs') = Len(dialogs)
    /\ dialogs[d].stage = "accepted"
    /\ dialogs'[d].stage /= "accepted"

\* the step in which the finished handler of dialog d writes and closes
HandlerCloses(d) ==
    /\ Len(dialogs') = Len(dialogs)
    /\ dialogs[d].stage = "writing"
    /\ dialogs'[d].stage = "closed"

DirIds == { completeBaseName(f) : f \in { g \in FileNames : exists(g) } }

Ids(files) == [k \in 1..Len(files) |-> completeBaseName(files[k])]

\* C1: the published index is never the result of a job that was cancelled
\* or that left the loop early: it holds one item for each enumerated file.
C1_OnlyCompleteResultsPublished ==
    ~pub.initial =>
        /\ ~pub.aborted
        /\ ~pub.cancelled
        /\ Len(index) = Len(pub.files)
        /\ \A k \in 1..Len(index) :
              index[k].id = completeBaseName(pub.files[k])

\* a cancelled job holds a partial result while an earlier result is published
C1_Witness ==
    /\ ~pub.initial
    /\ Len(jobs) = 1
    /\ jobs[1].stage = "done"
    /\ jobs[1].aborted
    /\ jobs[1].r /= << >>
    /\ Len(jobs[1].r) < Len(jobs[1].files)

\* C2: at most one scan job is in execution in every reachable state.
C2_AtMostOneJob == Len(jobs) <= 1

\* a request arrived while a job was running, and there is still one job
C2_Witness ==
    /\ Len(jobs) = 1
    /\ jobs[1].cancels >= 1
    /\ pending = 1

\* C3: once requests and directory changes have stopped, the coordinator is
\* idle for good and the index holds the identifiers of the files present.
C3_EventuallyCurrent ==
    <>[](everReq => (~isRunning /\ pending = 0 /\ IndexIds = DirIds))

\* all requests were made, the coordinator is idle, the index is current
C3_Witness ==
    /\ requests = MaxRequests
    /\ requests >= 1
    /\ ~isRunning
    /\ index /= << >>
    /\ IndexIds = DirIds

\* C5: at most one restart is pending, and when a job ends with a restart
\* pending exactly one new job is started and no restart remains recorded.
C5_OnePendingRestart ==
    [][ /\ pending' <= 1
        /\ ( /\ Len(jobs) = 1
             /\ jobs[1].stage = "done"
             /\ pending > 0
             /\ (jobs' = << >> \/ jobs'[1].stage /= "done") )
           => (jobs' = << NewJob >> /\ pending' = 0 /\ index' = index) ]_vars

\* two or more requests arrived during one job; one restart is recorded
C5_Witness ==
    /\ Len(jobs) = 1
    /\ jobs[1].cancels >= 2
    /\ pending = 1

\* C6: loading a file whose read fails (unreadable or gone) adds no item to
\* the result of the job.
C6_FailedReadSkipped ==
    [][ \A j \in 1..Len(jobs) :
          ( /\ Len(jobs') = Len(jobs)
            /\ jobs[j].stage = "load"
            /\ jobs'[j].stage = "check"
            /\ LET f == jobs[j].files[jobs[j].i]
               IN  ~(dir[f].present /\ dir[f].readable) )
          => jobs'[j].r = jobs[j].r ]_vars

\* C4: a query observes exactly one snapshot: the snapshot it reads and the
\* vector it returns are those of one complete published result, never a
\* mixture of an old and a new one.
C4_QuerySeesOneSnapshot ==
    /\ query.stage = "ranking" => query.snap \in completed
    /\ \E s \in completed :
          /\ lastRank.base \in IndexRank(lastRank.string, s)
          /\ lastRank.items = rankItems(lastRank.string, lastRank.base)

\* a query is in progress on the old snapshot while a new one is published
C4_Witness ==
    /\ query.stage = "ranking"
    /\ query.snap /= << >>
    /\ query.snap /= index

\* C7: the finished handler never writes to or truncates a file that exists
\* when it runs.
C7_CreateNeverOverwrites ==
    [][ \A d \in 1..Len(dialogs) :
          ( /\ HandlerOpens(d)
            /\ exists(filePath(dialogs[d].name)) )
          => ( /\ dir'[filePath(dialogs[d].name)] =
                     dir[filePath(dialogs[d].name)]
               /\ dialogs'[d].stage = "closed"
               /\ dialogs'[d].result /= "written" ) ]_vars

\* C8: removeSnippet changes the directory only by moving the existing file
\* to the trash after the user confirmed; for an absent file nothing is asked
\* and nothing changes, on a declined question nothing changes, and when
\* moveToTrash fails a warning is given and the directory is left as it is.
C8_RemoveOnlyTrashesConfirmed ==
    [][ /\ (rm.stage = "none" /\ rm'.stage = "returned")
           => ( /\ ~exists(rm'.file)
                /\ ~rm'.asked
                /\ rm'.outcome = "notfound"
                /\ dir' = dir /\ trash' = trash )
        /\ (rm.stage = "none" /\ rm'.stage = "asking")
           => (exists(rm'.file) /\ rm'.asked /\ dir' = dir /\ trash' = trash)
        /\ (rm.stage = "asking" /\ rm'.stage = "returned")
           => ( /\ rm'.outcome \in { "declined", "trashed", "warning" }
                /\ rm'.outcome = "declined"
                   => (~rm'.confirmed /\ dir' = dir /\ trash' = trash)
                /\ rm'.outcome = "warning"
                   => (dir' = dir /\ trash' = trash)
                /\ rm'.outcome = "trashed"
                   => ( /\ rm'.confirmed /\ rm'.asked
                        /\ exists(rm.file)
                        /\ dir' = [dir EXCEPT ![rm.file] = NoFile]
                        /\ trash' = trash \cup { rm.file } ) )
        /\ (rm' /= rm /\ dir' /= dir)
           => (rm.stage = "asking" /\ rm'.outcome = "trashed") ]_vars

\* moveToTrash failed: a warning was given and the file is still there
C8_Witness ==
    /\ rm.stage = "returned"
    /\ rm.outcome = "warning"
    /\ rm.confirmed
    /\ exists(rm.file)
    /\ rm.file \notin trash

CreateItems(items) == { k \in 1..Len(items) : items[k].kind = "create" }

\* C9 as stated: for a query with the prefix the returned vector holds exactly
\* one "create" item, it is the first element, and its score is strictly
\* greater than the score of every snippet item.
C9_SyntheticFirstStrictlyTop ==
    startsWith(lastRank.string, prefix_add) =>
        LET items == lastRank.items
        IN  /\ Cardinality(CreateItems(items)) = 1
            /\ items[1].kind = "create"
            /\ \A k \in 1..Len(items) :
                  items[k].kind = "snippet"
                  => items[k].score < items[1].score

\* C9 amended: for a query with the prefix the returned vector holds exactly
\* one "create" item, it is the last element, its score is 1.0 (the top of
\* the score range) and no snippet item has a greater score.
C9_SyntheticLastWithTopScore ==
    startsWith(lastRank.string, prefix_add) =>
        LET items == lastRank.items
            n == Len(items)
        IN  /\ n >= 1
            /\ CreateItems(items) = { n }
            /\ items[n].id = prefix_add
            /\ items[n].score = SyntheticScore
            /\ \A k \in 1..n : items[k].score <= items[n].score

\* a query with the prefix matched a snippet with the score of the create item
C9_Witness ==
    /\ startsWith(lastRank.string, prefix_add)
    /\ Len(lastRank.items) = 2
    /\ lastRank.items[1].kind = "snippet"
    /\ lastRank.items[1].score = SyntheticScore
    /\ lastRank.items[2].kind = "create"

\* C10: a create that succeeds leaves the file with exactly the proposed
\* text, which for the create item of the query "+" \o t is t; the editor is
\* opened exactly when a create succeeds with an empty text.
C10_CreateWritesProposedText ==
    [][ /\ \A d \in 1..Len(dialogs) :
              (HandlerCloses(d) /\ dialogs'[d].result = "written")
              => ( /\ dir'[filePath(dialogs[d].name)].present
                   /\ dir'[filePath(dialogs[d].name)].content = dialogs[d].text
                   /\ dialogs'[d].editor <=> (dialogs[d].text = << >>) )
        /\ \A d \in 1..Len(dialogs') :
              /\ dialogs'[d].origin /= << >>
                 => ( /\ startsWith(dialogs'[d].origin, prefix_add)
                      /\ dialogs'[d].origin = prefix_add \o dialogs'[d].text )
              /\ dialogs'[d].editor
                 => ( /\ dialogs'[d].result = "written"
                      /\ dialogs'[d].text = << >> ) ]_vars

\* the create item of the query "+h\n i" wrote a file holding "h\n i"
C10_Witness ==
    \E d \in 1..Len(dialogs) :
        /\ dialogs[d].stage = "closed"
        /\ dialogs[d].result = "written"
        /\ dialogs[d].origin = << "+", "h", "\n", " ", "i" >>
        /\ ~dialogs[d].editor
        /\ dir[filePath(dialogs[d].name)].content = << "h", "\n", " ", "i" >>

\* C11 as stated: every preview in the index is at most preview_max_size + 1
\* long, and equals the simplified text when that is at most preview_max_size
\* long.
C11_PreviewAtMost101 ==
    \A k \in 1..Len(index) :
        LET c == dir[TxtFile(index[k].id)].content
        IN  /\ Len(index[k].preview) <= preview_max_size + 1
            /\ Len(simplified(c)) <= preview_max_size
               => index[k].preview = simplified(c)

\* C11 amended: every preview is at most preview_max_size + 2 long (the cut
\* text, a space and the ellipsis), and equals the simplified text when that
\* is at most preview_max_size long.
C11_PreviewAtMost102 ==
    \A k \in 1..Len(index) :
        LET c == dir[TxtFile(index[k].id)].content
        IN  /\ Len(index[k].preview) <= preview_max_size + 2
            /\ Len(simplified(c)) <= preview_max_size
               => index[k].preview = simplified(c)
            /\ Len(simplified(c)) > preview_max_size
               => index[k].preview =
                     SubSeq(simplified(c), 1, preview_max_size)
                        \o << " ", "..." >>

\* the index holds a cut preview and a preview of exactly preview_max_size
C11_Witness ==
    /\ Len(index) = 2
    /\ Len(index[1].preview) = preview_max_size + 2
    /\ Len(index[2].preview) = preview_max_size
    /\ Len(dir[TxtFile(index[2].id)].content) > preview_max_size

\* C12: with the directory unchanged, every publication that follows an
\* earlier one leaves the index as it was: the same identifiers and previews.
C12_RescanIdempotent ==
    [][ (~pub.initial /\ (pub' /= pub \/ index' /= index))
        => index' = index ]_vars

\* a second publication took place and the index holds both files
C12_Witness ==
    /\ pub.again
    /\ Len(index) = 2
    /\ index[2].preview /= << >>

Idle == ~isRunning /\ pending = 0

\* C13: a step that changes the directory's entry list leaves a notification;
\* a notification goes away only in a step that requests a rescan, which
\* nobody requested explicitly; and once the changes have stopped no
\* notification is left and the published index holds the identifiers of
\* exactly the files present.
C13_ChangeTriggersRescan ==
    /\ [][Present(dir') /= Present(dir) => notify']_vars
    /\ [][(notify /\ ~notify') =>
            (everReq' /\ isRunning' /\ requests' = requests)]_vars
    /\ <>[](~notify /\ (everReq => (Idle /\ IndexIds = DirIds)))

\* a snippet was created and another one trashed by the plugin, no rescan was
\* requested explicitly, and the published index shows both changes
C13_Witness ==
    /\ requests = 0
    /\ rm.outcome = "trashed"
    /\ Idle
    /\ ~notify
    /\ ~pub.initial
    /\ \E d \in 1..Len(dialogs) :
          /\ dialogs[d].result = "written"
          /\ filePath(dialogs[d].name) /= rm.file
          /\ completeBaseName(filePath(dialogs[d].name)) \in IndexIds
    /\ completeBaseName(rm.file) \notin IndexIds
    /\ IndexIds = DirIds

\* C14: once the changes have stopped, every published item of a file that
\* is still present shows the preview of the file's current content, also
\* when the last change was an edit of the file in place.
C14_EditedPreviewSynchronized ==
    <>[](\A k \in 1..Len(index) :
            exists(TxtFile(index[k].id)) =>
                index[k].preview = SnippetItem(TxtFile(index[k].id), dir).preview)

\* C15: a rescan request can be made in every state of the coordinator and is
\* one step of its caller: it leaves the running job where it is (only the
\* cancellation is recorded) or starts a job that has not listed the
\* directory yet, and it neither reads the directory nor publishes anything.
C15_RequestNeverBlocks ==
    /\ [](requests < MaxRequests => ENABLED RequestRescan)
    /\ [][requests' /= requests =>
            /\ dir' = dir
            /\ index' = index
            /\ pub' = pub
            /\ IF isRunning
               THEN /\ pending' = 1
                    /\ Len(jobs') = Len(jobs)
                    /\ \A j \in 1..Len(jobs) :
                          jobs'[j] = [jobs[j] EXCEPT !.cancels = @ + 1]
               ELSE /\ pending' = pending
                    /\ jobs' = << NewJob >>
                    /\ jobs'[1].stage = "enum"
                    /\ jobs'[1].files = << >>
                    /\ jobs'[1].r = << >> ]_vars

\* both explicit requests were made while a job was running, the second one
\* with a restart already pending, and the job is still in its loop
C15_Witness ==
    /\ requests = 2
    /\ Len(jobs) = 1
    /\ jobs[1].cancels = 2
    /\ jobs[1].stage \notin { "enum", "done" }
    /\ pending = 1

\* the step in which the only job ends: no request and no notification is
\* handled in it
JobEnds ==
    /\ Len(jobs) = 1
    /\ jobs[1].stage = "done"
    /\ jobs' /= jobs
    /\ requests' = requests
    /\ notify' = notify

InSeq(x, s) == \E k \in 1..Len(s) : s[k] = x

\* C16: when a job ends with a restart pending, nothing is published and in
\* the same step a fresh job is running with no restart pending, so the
\* coordinator is never idle in between; a job that ends with no restart
\* pending, as the restarted one does, publishes one item for each file it
\* listed, hence for every listed file that is still present.
C16_RestartAfterCancelledJob ==
    [][JobEnds =>
         IF pending > 0
         THEN /\ index' = index
              /\ pub' = pub
              /\ completed' = completed
              /\ jobs' = << NewJob >>
              /\ pending' = 0
         ELSE /\ jobs' = << >>
              /\ ~jobs[1].aborted
              /\ Len(index') = Len(jobs[1].files)
              /\ \A f \in Present(dir) :
                    InSeq(f, jobs[1].files) =>
                        \E k \in 1..Len(index') :
                            index'[k].id = completeBaseName(f) ]_vars

\* the directory never changed; both requests came before the first
\* publication, so the first job was cancelled and restarted, and the
\* restarted job published both files
C16_Witness ==
    /\ requests = 2
    /\ changes = 0
    /\ ~pub.initial
    /\ ~pub.again
    /\ Idle
    /\ Len(index) = 2
    /\ IndexIds = DirIds

\* C17: a job loads at most one file with its abort flag set, the one it was
\* reading when the flag was set; a job that left through "if (abort)" has
\* ended with a result shorter than its listing and loads nothing more.
C17_CancelAtFileGranularity ==
    /\ [](\A j \in 1..Len(jobs) :
            /\ jobs[j].late <= 1
            /\ jobs[j].aborted =>
                  /\ jobs[j].stage = "done"
                  /\ jobs[j].cancels > 0
                  /\ Len(jobs[j].r) < Len(jobs[j].files))
    /\ [][\A j \in 1..Len(jobs) :
            (jobs[j].stage = "done" /\ Len(jobs') = Len(jobs)
                /\ jobs'[j].stage = "done") => jobs'[j].r = jobs[j].r]_vars

\* the flag was set while the first of two files was being read: that file
\* was loaded, the second one was not
C17_Witness ==
    /\ Len(jobs) = 1
    /\ jobs[1].aborted
    /\ jobs[1].late = 1
    /\ Len(jobs[1].r) = 1
    /\ Len(jobs[1].files) = 2

----------------------------------------------------------------------------
(* Repeated queries against one published snapshot *)

\* identifiers in the order of the directory listing (QDir sorts by name)
RankNames == << << "+" >>, << "+", "a" >>, << "a" >> >>

Subsequences(s) ==
    { SelectSeq(s, LAMBDA x : x \in keep) :
        keep \in SUBSET { s[k] : k \in 1..Len(s) } }

RankSnapshots ==
    { [k \in 1..Len(names) |->
          [id |-> names[k], preview |-> << "h", " ", "i" >>]] :
        names \in Subsequences(RankNames) }

\* the snapshot was published by a complete job; the files may be gone since
InitRank ==
    /\ dir = [f \in FileNames |-> NoFile]
    /\ trash = { }
    /\ notify = FALSE
    /\ jobs = << >>
    /\ pending = 0
    /\ index \in RankSnapshots
    /\ pub = [files |-> [k \in 1..Len(index) |-> TxtFile(index[k].id)],
              aborted |-> FALSE, cancelled |-> FALSE, initial |-> FALSE,
              again |-> FALSE]
    /\ completed = { << >>, index }
    /\ everReq = TRUE
    /\ changes = 0
    /\ requests = 0
    /\ query = NoQuery
    /\ lastRank = NoRank
    /\ dialogs = << >>
    /\ rm = NoRm

NextRank ==
    \/ QueryBegin
    \/ QueryRank

SpecRank == InitRank /\ [][NextRank]_vars

\* the order of QString::operator< on the characters in use
CharCode(c) ==
    CASE c = "\t" -> 9 [] c = "\n" -> 10 [] c = " " -> 32 [] c = "+" -> 43
      [] c = "a" -> 97 [] c = "h" -> 104 [] c = "i" -> 105 [] OTHER -> 120

RECURSIVE IdLessEq(_, _)
IdLessEq(s, t) ==
    IF s = << >> THEN TRUE
    ELSE IF t = << >> THEN FALSE
    ELSE IF Head(s) /= Head(t) THEN CharCode(Head(s)) < CharCode(Head(t))
    ELSE IdLessEq(Tail(s), Tail(t))

\* C18 as stated: the returned sequence, the create item included, is in
\* descending order of score, and items of equal score are in ascending
\* order of identifier.
C18_RankSortedByScoreThenId ==
    LET items == lastRank.items
    IN  \A k \in 1..(Len(items) - 1) :
            \/ items[k].score > items[k + 1].score
            \/ /\ items[k].score = items[k + 1].score
               /\ IdLessEq(items[k].id, items[k + 1].id)

\* C18 amended: the vector rankItems returns is the vector the host's
\* matcher returned in that call, item for item in the same order, followed
\* for a query with the prefix, and only then, by the create item as the last
\* element with the top score, which no item before it exceeds.
C18_RankHostResultThenCreate ==
    LET items == lastRank.items
        base  == lastRank.base
        n     == Len(items)
    IN  IF startsWith(lastRank.string, prefix_add)
        THEN /\ n = Len(base) + 1
             /\ SubSeq(items, 1, n - 1) = base
             /\ items[n].kind = "create"
             /\ items[n].id = prefix_add
             /\ items[n].score = SyntheticScore
             /\ \A k \in 1..(n - 1) :
                   /\ items[k].kind = "snippet"
                   /\ items[k].score <= items[n].score
        ELSE items = base

\* the query "+" was answered over a snapshot holding "+" and "+a", the host
\* returned the two matches in descending order of score, and the match with
\* half the score stands before the create item
C18_Witness ==
    /\ lastRank.string = prefix_add
    /\ Len(lastRank.items) = 3
    /\ lastRank.items[1].id = << "+" >>
    /\ lastRank.items[1].score = SyntheticScore
    /\ lastRank.items[2].id = << "+", "a" >>
    /\ lastRank.items[2].score < lastRank.items[3].score
    /\ lastRank.items[3].kind = "create"

----------------------------------------------------------------------------
(* Scans of directories that also hold other entries than snippet files *)

ListNames == { Listing[k] : k \in 1..Len(Listing) }

InitList ==
    /\ dir \in [ListNames -> { NoFile,
                               [present |-> TRUE, content |-> << >>,
                                readable |-> TRUE] }]
    /\ trash = { }
    /\ notify = FALSE
    /\ jobs = << >>
    /\ pending = 0
    /\ index = << >>
    /\ pub = NoPub
    /\ completed = { << >> }
    /\ everReq = FALSE
    /\ changes = 0
    /\ requests = 0
    /\ query = NoQuery
    /\ lastRank = NoRank
    /\ dialogs = << >>
    /\ rm = NoRm

NextList ==
    \/ RequestRescan
    \/ Scan

SpecList == InitList /\ [][NextList]_vars

\* C19: in a published index no two items have the same identifier, and the
\* item at each position is made from the file at that position of the
\* job's listing, a file "<identifier>.txt" that is not a subdirectory.
C19_IdsDistinctTxtFiles ==
    ~pub.initial =>
        /\ \A k, l \in 1..Len(index) :
              index[k].id = index[l].id => k = l
        /\ Len(index) = Len(pub.files)
        /\ \A k \in 1..Len(index) :
              /\ pub.files[k] = TxtFile(index[k].id)
              /\ pub.files[k] \notin SubDirs
              /\ dir[pub.files[k]].present

\* the name is not empty and no snippet file of that name exists
ValidName(name, d) == name /= << >> /\ ~d[filePath(name)].present

\* C20: a dialog becomes accepted only in a step in which the name is not
\* empty and its file does not exist; the Ok button is set at the opening
\* and at each text change to whether the name is valid then, and is left
\* alone otherwise; the step that rejects the dialog changes no file, and a
\* file is written only for a dialog that was accepted.
C20_DialogAcceptsOnlyValidName ==
    /\ [][\A d \in 1..Len(dialogs) :
            (Len(dialogs') = Len(dialogs) /\ dialogs[d].stage = "open") =>
              /\ dialogs'[d].stage = "accepted" =>
                    /\ dialogs[d].ok
                    /\ ValidName(dialogs[d].name, dir)
                    /\ dialogs'[d].name = dialogs[d].name
                    /\ dir' = dir
              /\ (dialogs'[d].stage = "open"
                    /\ dialogs'[d].name /= dialogs[d].name) =>
                    dialogs'[d].ok = ValidName(dialogs'[d].name, dir)
              /\ (dialogs'[d].stage = "open"
                    /\ dialogs'[d].name = dialogs[d].name) =>
                    dialogs'[d].ok = dialogs[d].ok
              /\ dialogs'[d].result = "rejected" =>
                    /\ dialogs'[d].stage = "closed"
                    /\ dir' = dir
                    /\ trash' = trash]_vars
    /\ [][Len(dialogs') > Len(dialogs) =>
            /\ dialogs' = Append(dialogs, dialogs'[Len(dialogs')])
            /\ dialogs'[Len(dialogs')].stage = "open"
            /\ dialogs'[Len(dialogs')].ok =
                  ValidName(dialogs'[Len(dialogs')].name, dir)]_vars
    /\ [][\A d \in 1..Len(dialogs) :
            (Len(dialogs') = Len(dialogs) /\ dialogs[d].result = "none"
               /\ dialogs'[d].result \in { "written", "critical" }) =>
            dialogs[d].stage \in { "accepted", "writing" }]_vars
    /\ [][\A d \in 1..Len(dialogs) :
            (Len(dialogs') = Len(dialogs) /\ dialogs[d].stage /= "writing"
               /\ dialogs'[d].stage = "writing") =>
            dialogs[d].stage = "accepted"]_vars
    /\ [](\A d \in 1..Len(dialogs) :
            dialogs[d].result = "rejected" => dialogs[d].stage = "closed")

\* two dialogs were given the same free name; the first was accepted and
\* wrote the file, the second still shows Ok enabled and is refused by accept
C20_Witness ==
    /\ Len(dialogs) = 2
    /\ dialogs[1].result = "written"
    /\ dialogs[2].stage = "open"
    /\ dialogs[2].ok
    /\ dialogs[2].name = dialogs[1].name
    /\ ~ValidName(dialogs[2].name, dir)

====
